---- MODULE Spec2Model ----
(***************************************************************************)
(* State-machine model of the three client widgets of trendix-frontend:    *)
(*   VideoDetailClient   src/app/video/[id]/VideoDetailClient.tsx          *)
(*   VideoCompareClient  src/app/compare/VideoCompareClient.tsx            *)
(*   VideoDetailModal    src/unnamed/part_001                              *)
(* One route is rendered at a time, so `route` selects the widget whose    *)
(* handlers can run.  A fetch call is a record in `requests`; the network  *)
(* settles its promise (status and body of the Response, or a rejection),  *)
(* then the body read settles: these are the two awaits of every fetch     *)
(* routine.  Everything between two awaits is one atomic step, as in the   *)
(* single-threaded event loop.                                             *)
(* String literals of the source that are not ASCII are written in English.*)
(* lastOutcome and thrown are history variables: they record how the most  *)
(* recently issued request ended and what the last settled request threw.  *)
(* dom is what the modal touches outside itself: the keydown listeners of   *)
(* window and the overflow of document.body.  calc holds the last call of a *)
(* formatter or of a render function, its arguments and its result; the     *)
(* pure functions are exercised by CalcSpec.                                *)
(***************************************************************************)
EXTENDS Integers, Sequences, FiniteSets, TLC

VARIABLES route, apiBaseUrl, detail, compare, modal, requests, lastOutcome,
          thrown, errorLog, uncaught, dom, calc

vars == <<route, apiBaseUrl, detail, compare, modal, requests, lastOutcome,
          thrown, errorLog, uncaught, dom, calc>>

(* ------------------------------ bounds --------------------------------- *)

\* number of fetch calls a behaviour may issue
MaxRequests == 2
\* longest text typed into a URL input of the comparison widget
MaxUrlLen == 1
\* longest history array a response carries
MaxHistory == 2
\* longest series a chart is given
MaxSeries == 3
\* largest value of a compared metric
MaxMetric == 5
\* longest video, in seconds
MaxSeconds == 600
\* the small counts given to the formatters, besides the chosen large ones
MaxCount == 20
\* most items of a series whose labels are laid out (the request asks for
\* limit=30)
MaxItems == 30

(* ------------------------------ values --------------------------------- *)

\* undefined and null of strings; null of objects and of JSON
Undefined == "<undefined>"
Null == "<null>"
NullData == [type |-> "null"]

VideoIds == {"X", "Y"}
ApiBaseUrls == {Undefined, "", "https://api"}
Statuses == {200, 404, 500}

FalsyMut(v) == v = Undefined
\* `!apiBaseUrl`
Falsy(v) == v = Undefined \/ v = ""

\* Response.ok
ResponseOk(status) == status >= 200 /\ status <= 299

\* 'NEXT_PUBLIC_API_BASE_URL 환경 변수가 설정되어 있지 않습니다.'
ConfigErrorMessage == "NEXT_PUBLIC_API_BASE_URL is not set"
\* '알 수 없는 오류가 발생했습니다.'
UnknownErrorMessage == "unknown error"
\* `요청에 실패했습니다. (status: ${response.status})`
GenericStatusMessage(status) == "request failed (status: " \o ToString(status) \o ")"

(* thrown values: an Error carries name and message, anything else does not *)
ErrorValue(name, message) == [isError |-> TRUE, name |-> name, message |-> message]
NetworkError == ErrorValue("TypeError", "Failed to fetch")
SyntaxError == ErrorValue("SyntaxError", "Unexpected token < in JSON")
AbortError == ErrorValue("AbortError", "The user aborted a request.")
NonErrorValue == [isError |-> FALSE, name |-> Undefined, message |-> Undefined]
NoThrow == [isError |-> FALSE, name |-> "none", message |-> Undefined]

(* response bodies: text that JSON.parse rejects, or a JSON value *)
Unparsable == [parsable |-> FALSE, value |-> NullData]
NoBody == [parsable |-> FALSE, value |-> [type |-> "none"]]
JsonBody(v) == [parsable |-> TRUE, value |-> v]
JString(s) == [type |-> "string", value |-> s]
JNumber(n) == [type |-> "number", value |-> n]
JUndefined == [type |-> "undefined"]
ErrorPayload(d) == [type |-> "object", detail |-> d]

\* bodies of non-2xx responses
ErrorBodies ==
    { Unparsable, JsonBody(NullData),
      JsonBody(ErrorPayload(JUndefined)),
      JsonBody(ErrorPayload(JNumber(7))),
      JsonBody(ErrorPayload(JString("not found"))),
      JsonBody(ErrorPayload(JString(""))) }

\* `payload?.detail`
DetailOf(payload) ==
    IF payload.type = "object" /\ "detail" \in DOMAIN payload
    THEN payload.detail
    ELSE JUndefined

\* typeof payload?.detail === 'string' ? payload.detail : generic message
FailureDetail(payload, status) ==
    IF DetailOf(payload).type = "string"
    THEN DetailOf(payload).value
    ELSE GenericStatusMessage(status)

\* response.json().catch(() => null)
JsonOrNull(body) == IF body.parsable THEN body.value ELSE NullData

CatchMessageMut(err) == err.message
\* err instanceof Error ? err.message : fallback
CatchMessage(err) == IF err.isError THEN err.message ELSE UnknownErrorMessage

\* the catch clause of the fetch routines has no filter: every thrown value
\* is handled
Caught(err) == TRUE

\* calc before any call
NoCall == [fn |-> "none", args |-> <<>>, result |-> <<>>]

(* ------------------------------ requests ------------------------------- *)

Pending == [kind |-> "pending"]
Success(data) == [kind |-> "success", data |-> data]
Failure(message) == [kind |-> "error", message |-> message]

\* a fetch call: the promise is awaited ("fetch"), then the body ("body")
NewRequest(widget, id) ==
    [widget |-> widget, id |-> id, phase |-> "fetch", status |-> 0,
     body |-> NoBody, aborted |-> FALSE]

\* the Response a resolved fetch promise carries
Responded(req, res) == [req EXCEPT !.phase = "body", !.status = res.status,
                                   !.body = res.body]

\* a settled request keeps nothing but its identity
Settled(req) == [req EXCEPT !.phase = "done", !.status = 0, !.body = NoBody]

InFlight(r) == requests[r].phase # "done"
CanFetch == Len(requests) < MaxRequests

\* lastOutcome records how the most recently issued request ended
Outcome(r, o) == IF r = Len(requests) THEN o ELSE lastOutcome

\* what the network can give to a fetch promise
FetchResults(okBodies, failBodies) ==
    [kind : {"response"}, status : {s \in Statuses : ResponseOk(s)},
     body : okBodies, err : {NoThrow}]
    \cup [kind : {"response"}, status : {s \in Statuses : ~ResponseOk(s)},
          body : failBodies, err : {NoThrow}]
    \cup [kind : {"reject"}, status : {0}, body : {NoBody},
          err : {NetworkError, NonErrorValue}]

(* --------------------------- VideoDetailClient ------------------------- *)

VideoDetailData(id, r) == [type |-> "object", id |-> id, req |-> r]

\* bodies of 2xx responses to GET /analysis/videos/{id}
DetailBodies(r) ==
    {Unparsable, JsonBody(NullData), JsonBody(VideoDetailData(requests[r].id, r))}

\* fetchVideoDetail up to its first await
FetchVideoDetail(id) ==
    IF Falsy(apiBaseUrl)
    THEN /\ detail' = [detail EXCEPT !.videoId = id, !.effects = TRUE,
                           !.loading = FALSE,
                           !.error = CatchMessage(ErrorValue("Error", ConfigErrorMessage)),
                           !.video = NullData]
         /\ UNCHANGED <<requests, lastOutcome>>
    ELSE /\ CanFetch
         /\ detail' = [detail EXCEPT !.videoId = id, !.effects = TRUE,
                           !.loading = TRUE, !.error = Null, !.video = NullData]
         /\ requests' = Append(requests, NewRequest("detail", id))
         /\ lastOutcome' = Pending

\* useEffect(..., [videoId]) on mount
DetailMount ==
    /\ route = "detail"
    /\ ~detail.effects
    /\ FetchVideoDetail(detail.videoId)
    /\ UNCHANGED <<route, apiBaseUrl, dom, calc, compare, modal, thrown, errorLog, uncaught>>

\* useEffect(..., [videoId]) after the videoId prop changed; no cleanup
DetailSetVideoId(id) ==
    /\ route = "detail"
    /\ detail.effects
    /\ id # detail.videoId
    /\ FetchVideoDetail(id)
    /\ UNCHANGED <<route, apiBaseUrl, dom, calc, compare, modal, thrown, errorLog, uncaught>>

DetailCatchMut(r, err) ==
    /\ detail' = IF Caught(err) THEN [detail EXCEPT !.error = CatchMessage(err)]
                 ELSE detail
    /\ uncaught' = IF Caught(err) THEN uncaught ELSE TRUE
    /\ requests' = [requests EXCEPT ![r] = Settled(@)]
    /\ lastOutcome' = Outcome(r, Failure(CatchMessage(err)))
    /\ thrown' = [req |-> r, err |-> err]
\* catch (err) { setError(message) } finally { setLoading(false) }
DetailCatch(r, err) ==
    /\ detail' = IF Caught(err)
                 THEN [detail EXCEPT !.error = CatchMessage(err), !.loading = FALSE]
                 ELSE [detail EXCEPT !.loading = FALSE]
    /\ uncaught' = IF Caught(err) THEN uncaught ELSE TRUE
    /\ requests' = [requests EXCEPT ![r] = Settled(@)]
    /\ lastOutcome' = Outcome(r, Failure(CatchMessage(err)))
    /\ thrown' = [req |-> r, err |-> err]

\* `await fetch(...)` settles
DetailFetchSettle(r, res) ==
    /\ route = "detail"
    /\ requests[r].widget = "detail"
    /\ requests[r].phase = "fetch"
    /\ IF res.kind = "reject"
       THEN DetailCatch(r, res.err)
       ELSE /\ requests' = [requests EXCEPT ![r] = Responded(@, res)]
            /\ UNCHANGED <<detail, uncaught, lastOutcome, thrown>>
    /\ UNCHANGED <<route, apiBaseUrl, dom, calc, compare, modal, errorLog>>

\* `await response.json()` settles, on either branch of `if (!response.ok)`
DetailBodySettle(r) ==
    /\ route = "detail"
    /\ requests[r].widget = "detail"
    /\ requests[r].phase = "body"
    /\ IF ~ResponseOk(requests[r].status)
       THEN DetailCatch(r, ErrorValue("Error",
                FailureDetail(JsonOrNull(requests[r].body), requests[r].status)))
       ELSE IF ~requests[r].body.parsable
       THEN DetailCatch(r, SyntaxError)
       ELSE /\ detail' = [detail EXCEPT !.video = requests[r].body.value,
                                        !.loading = FALSE]
            /\ requests' = [requests EXCEPT ![r] = Settled(@)]
            /\ lastOutcome' = Outcome(r, Success(requests[r].body.value))
            /\ thrown' = [req |-> r, err |-> NoThrow]
            /\ UNCHANGED uncaught
    /\ UNCHANGED <<route, apiBaseUrl, dom, calc, compare, modal, errorLog>>

\* what the component returns
DetailRender ==
    IF detail.loading THEN [view |-> "spinner", message |-> Null]
    ELSE IF detail.video = NullData
    THEN [view |-> "message",
          message |-> IF detail.error # Null THEN detail.error
                      ELSE "video not found"]
    ELSE [view |-> "content", message |-> Null]

(* --------------------------- VideoCompareClient ------------------------ *)

Chars == {" ", "u"}
UrlTexts == UNION {[1..n -> Chars] : n \in 0..MaxUrlLen}

\* String.prototype.trim
RECURSIVE TrimStart(_)
TrimStart(s) == IF s # <<>> /\ Head(s) = " " THEN TrimStart(Tail(s)) ELSE s
RECURSIVE TrimEnd(_)
TrimEnd(s) ==
    IF s # <<>> /\ s[Len(s)] = " " THEN TrimEnd(SubSeq(s, 1, Len(s) - 1)) ELSE s
Trim(s) == TrimEnd(TrimStart(s))

\* const canAnalyze = myUrl.trim().length > 0 && trendUrl.trim().length > 0
canAnalyze == Len(Trim(compare.myUrl)) > 0 /\ Len(Trim(compare.trendUrl)) > 0

AnalyzeBlockedMut == ~canAnalyze
\* if (!canAnalyze || loading) return
AnalyzeBlocked == ~canAnalyze \/ compare.loading

AnalyzeStartMut(c) == [c EXCEPT !.loading = TRUE, !.analysis = NullData]
\* setLoading(true); setError(null); setAnalysis(null)
AnalyzeStart(c) == [c EXCEPT !.loading = TRUE, !.error = Null, !.analysis = NullData]

CompareAnalysisData(r) == [type |-> "object", req |-> r]

\* bodies of 2xx responses to POST /analysis/shorts/compare
CompareBodies(r) ==
    {Unparsable, JsonBody(NullData), JsonBody(CompareAnalysisData(r))}

\* onChange of the first input
SetMyUrl(text) ==
    /\ route = "compare"
    /\ text # compare.myUrl
    /\ compare' = [compare EXCEPT !.myUrl = text]
    /\ UNCHANGED <<route, apiBaseUrl, dom, calc, detail, modal, requests, lastOutcome,
                   thrown, errorLog, uncaught>>

\* onChange of the second input
SetTrendUrl(text) ==
    /\ route = "compare"
    /\ text # compare.trendUrl
    /\ compare' = [compare EXCEPT !.trendUrl = text]
    /\ UNCHANGED <<route, apiBaseUrl, dom, calc, detail, modal, requests, lastOutcome,
                   thrown, errorLog, uncaught>>

\* handleAnalyze up to its first await; calls records how the last call went
handleAnalyze ==
    /\ route = "compare"
    /\ IF AnalyzeBlocked
       THEN /\ compare' = [compare EXCEPT !.calls = "returned"]
            /\ UNCHANGED <<requests, lastOutcome>>
       ELSE IF Falsy(apiBaseUrl)
       THEN /\ compare' = [AnalyzeStart(compare) EXCEPT !.loading = FALSE,
                               !.error = CatchMessage(ErrorValue("Error", ConfigErrorMessage)),
                               !.calls = "started"]
            /\ UNCHANGED <<requests, lastOutcome>>
       ELSE /\ CanFetch
            /\ compare' = [AnalyzeStart(compare) EXCEPT !.calls = "started"]
            /\ requests' = Append(requests, NewRequest("compare", Null))
            /\ lastOutcome' = Pending
    /\ UNCHANGED <<route, apiBaseUrl, dom, calc, detail, modal, thrown, errorLog, uncaught>>

\* catch (err) { setError(message) } finally { setLoading(false) }
CompareCatch(r, err) ==
    /\ compare' = IF Caught(err)
                  THEN [compare EXCEPT !.error = CatchMessage(err), !.loading = FALSE]
                  ELSE [compare EXCEPT !.loading = FALSE]
    /\ uncaught' = IF Caught(err) THEN uncaught ELSE TRUE
    /\ requests' = [requests EXCEPT ![r] = Settled(@)]
    /\ lastOutcome' = Outcome(r, Failure(CatchMessage(err)))
    /\ thrown' = [req |-> r, err |-> err]

\* `await fetch(...)` settles
CompareFetchSettle(r, res) ==
    /\ route = "compare"
    /\ requests[r].widget = "compare"
    /\ requests[r].phase = "fetch"
    /\ IF res.kind = "reject"
       THEN CompareCatch(r, res.err)
       ELSE /\ requests' = [requests EXCEPT ![r] = Responded(@, res)]
            /\ UNCHANGED <<compare, uncaught, lastOutcome, thrown>>
    /\ UNCHANGED <<route, apiBaseUrl, dom, calc, detail, modal, errorLog>>

\* `await response.json()` settles, on either branch of `if (!response.ok)`
CompareBodySettle(r) ==
    /\ route = "compare"
    /\ requests[r].widget = "compare"
    /\ requests[r].phase = "body"
    /\ IF ~ResponseOk(requests[r].status)
       THEN CompareCatch(r, ErrorValue("Error",
                FailureDetail(JsonOrNull(requests[r].body), requests[r].status)))
       ELSE IF ~requests[r].body.parsable
       THEN CompareCatch(r, SyntaxError)
       ELSE /\ compare' = [compare EXCEPT !.analysis = requests[r].body.value,
                                          !.loading = FALSE]
            /\ requests' = [requests EXCEPT ![r] = Settled(@)]
            /\ lastOutcome' = Outcome(r, Success(requests[r].body.value))
            /\ thrown' = [req |-> r, err |-> NoThrow]
            /\ UNCHANGED uncaught
    /\ UNCHANGED <<route, apiBaseUrl, dom, calc, detail, modal, errorLog>>

\* {error && <div>...{error}</div>}: an empty string renders no banner
CompareErrorBanner ==
    IF compare.error # Null /\ compare.error # "" THEN compare.error ELSE Null

(* ---------------------------- VideoDetailModal ------------------------- *)

HistoryItems ==
    { [snapshot_date |-> 1, view_count |-> 10, like_count |-> 3],
      [snapshot_date |-> 2, view_count |-> 20, like_count |-> 1] }
Histories == UNION {[1..n -> HistoryItems] : n \in 0..MaxHistory}

\* bodies of 2xx responses to GET /trends/videos/{id}/view_history
ModalBodies ==
    {Unparsable, JsonBody(NullData), JsonBody([type |-> "object"])}
    \cup {JsonBody([type |-> "object", history |-> h]) : h \in Histories}

\* new Date(snapshot_date).getTime(): the API sends calendar days, here the
\* number of the day; the result is in milliseconds
MsPerDay == 86400000
GetTime(date) == date * MsPerDay

\* history.sort((a, b) => dateA - dateB); Array.prototype.sort is stable
RECURSIVE Insert(_, _)
Insert(sorted, item) ==
    IF sorted = <<>> THEN <<item>>
    ELSE IF GetTime(sorted[Len(sorted)].snapshot_date)
                - GetTime(item.snapshot_date) <= 0
    THEN Append(sorted, item)
    ELSE Append(Insert(SubSeq(sorted, 1, Len(sorted) - 1), item), sorted[Len(sorted)])
SortByDateMut(h) == h
RECURSIVE SortByDate(_)
SortByDate(h) ==
    IF h = <<>> THEN <<>>
    ELSE Insert(SortByDate(SubSeq(h, 1, Len(h) - 1)), h[Len(h)])

\* data.history || []
HistoryOf(data) == IF "history" \in DOMAIN data THEN data.history ELSE <<>>

\* a state setter of an unmounted component does nothing
SetModal(m) == IF modal.phase = "unmounted" THEN modal ELSE m

AbortMut(reqs, c) == reqs
\* controller.abort(): rejects what the request still awaits
Abort(reqs, c) ==
    IF c # 0 /\ reqs[c].phase # "done"
    THEN [reqs EXCEPT ![c].aborted = TRUE]
    ELSE reqs

\* the rejection of an aborted promise is a microtask: its continuation runs
\* before any other event is dispatched
AbortPending == \E r \in DOMAIN requests : requests[r].aborted /\ InFlight(r)

\* error?.name !== 'AbortError'
LogsError(err) == err.name # "AbortError"

\* the history effect, after the cleanup of its previous run left `reqs`:
\* fetchViewHistory up to its first await
FetchViewHistory(m, v, reqs) ==
    IF v = Null
    THEN /\ modal' = [m EXCEPT !.video = v, !.controller = 0]
         /\ requests' = reqs
         /\ UNCHANGED <<lastOutcome, errorLog>>
    ELSE IF Falsy(apiBaseUrl)
    THEN /\ modal' = [m EXCEPT !.video = v, !.controller = 0,
                         !.viewHistory = <<>>, !.source = 0,
                         !.isLoadingHistory = FALSE]
         /\ requests' = reqs
         /\ errorLog' = errorLog \cup {<<0, "config">>}
         /\ UNCHANGED lastOutcome
    ELSE /\ Len(reqs) < MaxRequests
         /\ modal' = [m EXCEPT !.video = v, !.controller = Len(reqs) + 1,
                         !.isLoadingHistory = TRUE]
         /\ requests' = Append(reqs, NewRequest("modal", v))
         /\ lastOutcome' = Pending
         /\ UNCHANGED errorLog

OnCloseFns == {"f", "g"}

\* the render React commits when the parent passes video v, before the
\* passive effects of that commit run: the state is still the one the
\* previous effects and responses left.  source is the request whose
\* history the bars are built from, 0 when no bars are drawn.
CommittedRender(m, v) ==
    [video |-> v,
     source |-> IF v # Null /\ ~m.isLoadingHistory /\ Len(m.viewHistory) > 0
                THEN m.source ELSE 0]

\* window.getComputedStyle(document.body).overflow: the inline style wins
\* over the style sheet
ComputedOverflow(d) == IF d.overflow # "" THEN d.overflow ELSE d.sheet

\* window.addEventListener('keydown', handleEsc); handleEsc closes over onClose
AddListener(d, f) == [d EXCEPT !.listeners = Append(@, f)]

\* window.removeEventListener('keydown', handleEsc)
RECURSIVE RemoveOne(_, _)
RemoveOne(ls, f) ==
    IF ls = <<>> THEN <<>>
    ELSE IF Head(ls) = f THEN Tail(ls)
    ELSE <<Head(ls)>> \o RemoveOne(Tail(ls), f)
RemoveListenerMut(d, f) == d
RemoveListener(d, f) == [d EXCEPT !.listeners = RemoveOne(@, f)]

\* the scroll effect: if (!video) return; originalStyle = computed overflow;
\* document.body.style.overflow = 'hidden'
OriginalStyle(d, v) == IF v = Null THEN Null ELSE ComputedOverflow(d)
ScrollLock(d, v) == IF v = Null THEN d ELSE [d EXCEPT !.overflow = "hidden"]

ScrollCleanupMut(d, m) == d
\* the cleanup of the scroll effect, which exists when the effect locked:
\* document.body.style.overflow = originalStyle
ScrollCleanup(d, m) ==
    IF m.originalStyle # Null THEN [d EXCEPT !.overflow = m.originalStyle] ELSE d

\* the three effects on mount: history, ESC listener, scroll lock
ModalMount ==
    /\ route = "modal"
    /\ modal.phase = "constructed"
    /\ FetchViewHistory([modal EXCEPT !.phase = "mounted",
                                      !.committed = CommittedRender(modal, modal.video),
                                      !.originalStyle = OriginalStyle(dom, modal.video)],
                        modal.video, requests)
    /\ dom' = ScrollLock(AddListener(dom, modal.onClose), modal.video)
    /\ UNCHANGED <<route, apiBaseUrl, calc, detail, compare, thrown, uncaught>>

\* the parent passes another video object (or null): the cleanups of the
\* history and scroll effects, then the two effects
ModalSetVideo(v) ==
    /\ route = "modal"
    /\ modal.phase = "mounted"
    /\ ~AbortPending
    /\ v # Null \/ modal.video # Null
    /\ FetchViewHistory([modal EXCEPT !.committed = CommittedRender(modal, v),
                                      !.originalStyle =
                             OriginalStyle(ScrollCleanup(dom, modal), v)],
                        v, Abort(requests, modal.controller))
    /\ dom' = ScrollLock(ScrollCleanup(dom, modal), v)
    /\ UNCHANGED <<route, apiBaseUrl, calc, detail, compare, thrown, uncaught>>

\* the parent passes another onClose: the cleanup of the ESC effect, then
\* the effect
ModalSetOnClose(f) ==
    /\ route = "modal"
    /\ modal.phase = "mounted"
    /\ ~AbortPending
    /\ f # modal.onClose
    /\ modal' = [modal EXCEPT !.onClose = f]
    /\ dom' = AddListener(RemoveListener(dom, modal.onClose), f)
    /\ UNCHANGED <<route, apiBaseUrl, calc, detail, compare, requests, lastOutcome,
                   thrown, errorLog, uncaught>>

Keys == {"Escape", "Enter"}

\* handleEsc of every registered listener: if (e.key === 'Escape') onClose().
\* lastEsc records whether the last onClose so invoked found the modal open
\* (video non-null) or closed.
HandleEsc(d, key) ==
    IF key = "Escape" /\ d.listeners # <<>>
    THEN [d EXCEPT !.lastEsc = IF modal.video # Null THEN "open" ELSE "closed"]
    ELSE d

\* the user presses a key: window dispatches keydown to its listeners
ModalKeyDown(key) ==
    /\ route = "modal"
    /\ ~AbortPending
    /\ dom' = HandleEsc(dom, key)
    /\ UNCHANGED <<route, apiBaseUrl, calc, detail, compare, modal, requests,
                   lastOutcome, thrown, errorLog, uncaught>>

\* the parent removes the modal: the cleanups of the three effects
ModalUnmount ==
    /\ route = "modal"
    /\ modal.phase = "mounted"
    /\ ~AbortPending
    /\ modal' = [modal EXCEPT !.phase = "unmounted", !.controller = 0,
                              !.originalStyle = Null]
    /\ requests' = Abort(requests, modal.controller)
    /\ dom' = ScrollCleanup(RemoveListener(dom, modal.onClose), modal)
    /\ UNCHANGED <<route, apiBaseUrl, calc, detail, compare, lastOutcome, thrown,
                   errorLog, uncaught>>

\* catch (error) {...; setViewHistory([])} finally { setIsLoadingHistory(false) }
ModalCatch(r, err) ==
    /\ errorLog' = IF LogsError(err) THEN errorLog \cup {<<r, "error">>} ELSE errorLog
    /\ modal' = SetModal([modal EXCEPT !.viewHistory = <<>>, !.source = 0,
                                       !.isLoadingHistory = FALSE])
    /\ requests' = [requests EXCEPT ![r] = Settled(@)]
    /\ lastOutcome' = Outcome(r, Failure(err.name))
    /\ thrown' = [req |-> r, err |-> err]

ModalNotOkMut(r) ==
    /\ errorLog' = errorLog \cup {<<r, "failed">>}
    /\ modal' = SetModal([modal EXCEPT !.isLoadingHistory = FALSE])
    /\ requests' = [requests EXCEPT ![r] = Settled(@)]
    /\ lastOutcome' = Outcome(r, Failure("status"))
    /\ thrown' = [req |-> r, err |-> NoThrow]
\* the else branch of `if (res.ok)`, after `await res.text().catch(() => '')`
ModalNotOk(r) ==
    /\ errorLog' = errorLog \cup {<<r, "failed">>}
    /\ modal' = SetModal([modal EXCEPT !.viewHistory = <<>>, !.source = 0,
                                       !.isLoadingHistory = FALSE])
    /\ requests' = [requests EXCEPT ![r] = Settled(@)]
    /\ lastOutcome' = Outcome(r, Failure("status"))
    /\ thrown' = [req |-> r, err |-> NoThrow]

\* `await fetch(url, {signal})` settles
ModalFetchSettle(r, res) ==
    /\ route = "modal"
    /\ requests[r].widget = "modal"
    /\ requests[r].phase = "fetch"
    /\ ~AbortPending
    /\ IF res.kind = "reject"
       THEN ModalCatch(r, res.err)
       ELSE /\ requests' = [requests EXCEPT ![r] = Responded(@, res)]
            /\ UNCHANGED <<modal, lastOutcome, thrown, errorLog>>
    /\ UNCHANGED <<route, apiBaseUrl, dom, calc, detail, compare, uncaught>>

\* `await res.json()` or `await res.text()` settles
ModalBodySettle(r) ==
    /\ route = "modal"
    /\ requests[r].widget = "modal"
    /\ requests[r].phase = "body"
    /\ ~AbortPending
    /\ IF ~ResponseOk(requests[r].status)
       THEN ModalNotOk(r)
       ELSE IF ~requests[r].body.parsable
       THEN ModalCatch(r, SyntaxError)
       ELSE IF requests[r].body.value = NullData
       THEN ModalCatch(r, ErrorValue("TypeError", "Cannot read properties of null"))
       ELSE /\ modal' = SetModal([modal EXCEPT
                            !.viewHistory = SortByDate(HistoryOf(requests[r].body.value)),
                            !.source = r,
                            !.isLoadingHistory = FALSE])
            /\ requests' = [requests EXCEPT ![r] = Settled(@)]
            /\ lastOutcome' =
                   Outcome(r, Success(SortByDate(HistoryOf(requests[r].body.value))))
            /\ thrown' = [req |-> r, err |-> NoThrow]
            /\ UNCHANGED errorLog
    /\ UNCHANGED <<route, apiBaseUrl, dom, calc, detail, compare, uncaught>>

\* the continuation of a request whose controller was aborted: fetch and
\* res.json() reject with an AbortError, res.text() rejects into its own catch
ModalAbortSettle(r) ==
    /\ route = "modal"
    /\ requests[r].widget = "modal"
    /\ requests[r].aborted
    /\ InFlight(r)
    /\ IF requests[r].phase = "body" /\ ~ResponseOk(requests[r].status)
       THEN ModalNotOk(r)
       ELSE ModalCatch(r, AbortError)
    /\ UNCHANGED <<route, apiBaseUrl, dom, calc, detail, compare, uncaught>>

\* what the two SimpleChart instances of the modal show; the modal has no
\* error view
ModalRender ==
    IF modal.phase # "mounted" \/ modal.video = Null
    THEN [view |-> "none", message |-> Null]
    ELSE IF modal.isLoadingHistory THEN [view |-> "spinner", message |-> Null]
    ELSE IF Len(modal.viewHistory) = 0 THEN [view |-> "no data", message |-> Null]
    ELSE [view |-> "bars", message |-> Null]

(* ------------------------- formatters and charts ----------------------- *)

\* integers given to the compact formatters: counts, and differences of
\* counts, which may be negative.  None is a decimal tie (as 1050 is), where
\* toFixed depends on the binary value of the quotient.
FormatInputs ==
    {-1500000, -2300, -1000, -999, -1, 0, 7, 450, 999, 1000, 1049, 2300, 15949,
     999949, 1000000, 1500000, 12340000}
    \cup (0 .. MaxCount)

\* (n / d).toFixed(1) for n >= 0: the nearest number of tenths
ToFixed1(n, d) ==
    LET tenths == (10 * n + d \div 2) \div d
    IN  ToString(tenths \div 10) \o "." \o ToString(tenths % 10)

\* n.toString() of an integer
NumToString(n) == ToString(n)

\* n.toLocaleString() of an integer where digits are grouped by three with
\* commas (en-US, ko-KR)
RECURSIVE Grouped(_)
Grouped(k) ==
    IF k < 1000 THEN ToString(k)
    ELSE LET low == k % 1000
         IN  Grouped(k \div 1000) \o ","
                \o ToString(low \div 100) \o ToString((low \div 10) % 10)
                \o ToString(low % 10)
ToLocaleString(n) == IF n < 0 THEN "-" \o Grouped(-n) ELSE Grouped(n)

\* formatNumber of the detail page
DetailFormatNumber(num) ==
    IF num >= 1000000 THEN ToFixed1(num, 1000000) \o "M"
    ELSE IF num >= 1000 THEN ToFixed1(num, 1000) \o "K"
    ELSE NumToString(num)

\* formatNumber of the modal
ModalFormatNumber(num) ==
    IF num >= 1000000 THEN ToFixed1(num, 1000000) \o "M"
    ELSE IF num >= 1000 THEN ToFixed1(num, 1000) \o "K"
    ELSE NumToString(num)

\* formatChange of the modal: sign = num >= 0 ? '+' : ''
ChangeSign(num) == IF num >= 0 THEN "+" ELSE ""
formatChange(num) == ChangeSign(num) \o ModalFormatNumber(num)

\* formatCompactNumber of the comparison widget
formatCompactNumber(value) ==
    IF value >= 1000000 THEN ToFixed1(value, 1000000) \o "M"
    ELSE IF value >= 1000 THEN ToFixed1(value, 1000) \o "K"
    ELSE ToLocaleString(value)

\* counts a history or a video carries, and the series a chart is given;
\* the time of an item plays no part in what a chart computes
CountValues == {-5, 0, 10, 15, 20}
Series == UNION {[1..n -> CountValues] : n \in 0..MaxSeries}

\* Math.max(...xs), Math.min(...xs) of a non-empty argument list
MathMax(S) == CHOOSE x \in S : \A y \in S : y <= x
MathMin(S) == CHOOSE x \in S : \A y \in S : x <= y
Counts(data) == {data[i] : i \in DOMAIN data}

\* a quotient of two numbers, kept exact
Ratio(n, d) == [num |-> n, den |-> d]

\* 0.05 is one twentieth: x + x * 0.05 = 21 x / 20
Twentieths == 20
PlusFivePercentMut(x) == Ratio(Twentieths * x, Twentieths)
PlusFivePercent(x) == Ratio((Twentieths + 1) * x, Twentieths)

\* Math.max(...data.map(d => d.count), 1) and Math.min(..., 0)
ActualMaxMut(data) == MathMax(Counts(data))
ActualMax(data) == MathMax(Counts(data) \cup {1})
ActualMin(data) == MathMin(Counts(data) \cup {0})

\* ((item.count - minCount) / (maxCount - minCount)) * 100, with
\* maxCount = num / den
HeightPercent(count, minCount, maxCount) ==
    Ratio(100 * maxCount.den * (count - minCount),
          maxCount.num - maxCount.den * minCount)

\* Math.ceil(n / 10)
CeilTenth(n) == (n + 9) \div 10

ShowLabelMut(n, i) == n <= 10 \/ i % CeilTenth(n) = 0
\* showLabel of the label at index i (from 0) of a series of n items
ShowLabel(n, i) == n <= 10 \/ i % CeilTenth(n) = 0 \/ i = n - 1

\* the x-axis row: data.map gives one slot per item, visible or hidden;
\* it reads the length of the series and the index only
Labels(n) == [i \in 0 .. n - 1 |-> ShowLabel(n, i)]

\* what the modal SimpleChart evaluates below its two early returns; the
\* summary line reads data[0].count, a TypeError on an empty array
ModalChartBody(data) ==
    LET maxCount == PlusFivePercent(ActualMax(data))
        minCount == ActualMin(data)
    IN  IF data = <<>>
        THEN [view |-> "TypeError", computed |-> {"axis"}]
        ELSE [view |-> "chart", computed |-> {"axis", "height", "delta"},
              maxCount |-> maxCount, minCount |-> minCount,
              heights |-> [i \in DOMAIN data |->
                              HeightPercent(data[i], minCount, maxCount)],
              delta |-> data[Len(data)] - data[1],
              deltaText |-> "+" \o ModalFormatNumber(data[Len(data)] - data[1]),
              labels |-> Labels(Len(data))]

ModalIsEmptyMut(data) == FALSE
\* data.length === 0
ModalIsEmpty(data) == Len(data) = 0

\* SimpleChart of the modal: the spinner, the "no data" text or the bars
ModalSimpleChart(data, isLoading) ==
    IF isLoading THEN [view |-> "spinner", computed |-> {}]
    ELSE IF ModalIsEmpty(data) THEN [view |-> "no data", computed |-> {}]
    ELSE ModalChartBody(data)

\* SimpleChart of the detail page: no early return; Math.max() of no
\* argument is -Infinity, and the summary line reads data[0].count, a
\* TypeError on an empty array
DetailSimpleChart(data) ==
    IF data = <<>>
    THEN [view |-> "TypeError", computed |-> {"axis"}]
    ELSE LET maxCount == MathMax(Counts(data))
             delta == data[Len(data)] - data[1]
         IN  [view |-> "chart", computed |-> {"axis", "height", "delta"},
              maxCount |-> maxCount,
              heights |-> [i \in DOMAIN data |-> Ratio(100 * data[i], maxCount)],
              delta |-> delta,
              deltaText |-> "+" \o DetailFormatNumber(delta),
              percent |-> Ratio(100 * delta, data[1])]

\* values of a numeric field of the analysis, and of a textual one
MetricValues == -1 .. MaxMetric
TextValues == {"fast", "slow"}

getWinnerMut(a, b) == IF a >= b THEN "A" ELSE "B"
\* getWinner of the comparison widget
getWinner(a, b) ==
    IF a > b THEN "A"
    ELSE IF b > a THEN "B"
    ELSE "tie"

ComparisonRowMut(valueA, valueB, winner) ==
    [valueA |-> valueA, valueB |-> valueB,
     crownA |-> winner # "B", crownB |-> winner = "B"]
\* ComparisonRow: the crown and the green text of a side
ComparisonRow(valueA, valueB, winner) ==
    [valueA |-> valueA, valueB |-> valueB,
     crownA |-> winner = "A", crownB |-> winner = "B"]

\* the rows of the analysis: ten compare two numbers, seven show two texts
PairedMetrics ==
    {"hook_score", "duration_sec", "cut_count", "views", "likes", "comments",
     "like_rate", "completion_rate", "retention_3s", "share_rate"}
TextAttributes ==
    {"opening_line", "visual_cue", "caption_style", "pacing", "aspect_ratio",
     "text_density", "audio_style"}
Row(field, my, trend) ==
    IF field \in PairedMetrics
    THEN ComparisonRow(my, trend, getWinner(my, trend))
    ELSE ComparisonRow(my, trend, Undefined)

\* remaining.toString().padStart(2, '0')
PadStart2Mut(str) == str
PadStart2(str) == IF Len(str) < 2 THEN "0" \o str ELSE str

\* formatDuration of the comparison widget; !seconds holds of 0 and undefined
formatDuration(seconds) ==
    IF seconds.type = "undefined" \/ seconds.value = 0 THEN "0:00"
    ELSE LET minutes == seconds.value \div 60
             remaining == seconds.value % 60
         IN  ToString(minutes) \o ":" \o PadStart2(ToString(remaining))

\* what a pure function leaves alone: the state of the widgets
widgets == <<route, apiBaseUrl, detail, compare, modal, requests, lastOutcome,
             thrown, errorLog, uncaught, dom>>

\* a call of a formatter or of a render function, and its return
Called(fn, args, result) == [fn |-> fn, args |-> args, result |-> result]

Return ==
    /\ calc # NoCall
    /\ calc' = NoCall
    /\ UNCHANGED widgets

\* <SimpleChart data={video.viewHistory} .../>, likeHistory alike
RenderDetailChart ==
    \E data \in Series :
        /\ calc = NoCall
        /\ calc' = Called("DetailSimpleChart", <<data>>, DetailSimpleChart(data))
        /\ UNCHANGED widgets

CallGetWinner ==
    \E a, b \in MetricValues :
        /\ calc = NoCall
        /\ calc' = Called("getWinner", <<a, b>>, getWinner(a, b))
        /\ UNCHANGED widgets

RenderRow ==
    \/ \E field \in PairedMetrics : \E my, trend \in MetricValues :
          /\ calc = NoCall
          /\ calc' = Called("Row", <<field, my, trend>>, Row(field, my, trend))
          /\ UNCHANGED widgets
    \/ \E field \in TextAttributes : \E my, trend \in TextValues :
          /\ calc = NoCall
          /\ calc' = Called("Row", <<field, my, trend>>, Row(field, my, trend))
          /\ UNCHANGED widgets

CallFormatDuration ==
    \E seconds \in {JNumber(n) : n \in 0 .. MaxSeconds} \cup {JUndefined} :
        /\ calc = NoCall
        /\ calc' = Called("formatDuration", <<seconds>>, formatDuration(seconds))
        /\ UNCHANGED widgets

CallDetailFormatNumber ==
    \E num \in FormatInputs :
        /\ calc = NoCall
        /\ calc' = Called("DetailFormatNumber", <<num>>, DetailFormatNumber(num))
        /\ UNCHANGED widgets

CallModalFormatNumber ==
    \E num \in FormatInputs :
        /\ calc = NoCall
        /\ calc' = Called("ModalFormatNumber", <<num>>, ModalFormatNumber(num))
        /\ UNCHANGED widgets

\* {formatChange(video.viewCountChange)}, likeCountChange alike
CallFormatChange ==
    \E num \in FormatInputs :
        /\ calc = NoCall
        /\ calc' = Called("formatChange", <<num>>, formatChange(num))
        /\ UNCHANGED widgets

CallFormatCompactNumber ==
    \E value \in FormatInputs :
        /\ calc = NoCall
        /\ calc' = Called("formatCompactNumber", <<value>>, formatCompactNumber(value))
        /\ UNCHANGED widgets

\* the x-axis row of the modal chart for a series of n items
RenderLabels ==
    \E n \in 1 .. MaxItems :
        /\ calc = NoCall
        /\ calc' = Called("Labels", <<n>>, Labels(n))
        /\ UNCHANGED widgets

RenderModalChart ==
    \E data \in Series, isLoading \in BOOLEAN :
        /\ calc = NoCall
        /\ calc' = Called("ModalSimpleChart", <<data, isLoading>>,
                          ModalSimpleChart(data, isLoading))
        /\ UNCHANGED widgets

(* ------------------------------ behaviour ------------------------------ *)

Init ==
    /\ route \in {"detail", "compare", "modal"}
    /\ apiBaseUrl \in ApiBaseUrls
    /\ detail \in [videoId : VideoIds, video : {NullData}, loading : {TRUE},
                   error : {Null}, effects : {FALSE}]
    /\ compare = [myUrl |-> <<>>, trendUrl |-> <<>>, analysis |-> NullData,
                  loading |-> FALSE, error |-> Null, calls |-> "none"]
    /\ modal \in [video : VideoIds \cup {Null}, viewHistory : {<<>>},
                  isLoadingHistory : {FALSE}, phase : {"constructed"},
                  controller : {0}, source : {0}, onClose : {"f"},
                  originalStyle : {Null},
                  committed : {[video |-> Null, source |-> 0]}]
    /\ requests = <<>>
    /\ lastOutcome = Pending
    /\ thrown = [req |-> 0, err |-> NoThrow]
    /\ errorLog = {}
    /\ uncaught = FALSE
    \* only the modal reads or writes the body style
    /\ dom \in {[listeners |-> <<>>, overflow |-> o, sheet |-> "visible",
                  initialOverflow |-> IF o # "" THEN o ELSE "visible",
                  lastEsc |-> "none"] :
                 o \in IF route = "modal" THEN {"", "auto"} ELSE {""}}
    /\ calc = NoCall

Next ==
    \/ DetailMount
    \/ \E id \in VideoIds : DetailSetVideoId(id)
    \/ \E r \in DOMAIN requests :
         \E res \in FetchResults(DetailBodies(r), ErrorBodies) : DetailFetchSettle(r, res)
    \/ \E r \in DOMAIN requests : DetailBodySettle(r)
    \/ \E text \in UrlTexts : SetMyUrl(text)
    \/ \E text \in UrlTexts : SetTrendUrl(text)
    \/ handleAnalyze
    \/ \E r \in DOMAIN requests :
         \E res \in FetchResults(CompareBodies(r), ErrorBodies) : CompareFetchSettle(r, res)
    \/ \E r \in DOMAIN requests : CompareBodySettle(r)
    \/ ModalMount
    \/ \E v \in VideoIds \cup {Null} : ModalSetVideo(v)
    \/ \E f \in OnCloseFns : ModalSetOnClose(f)
    \/ \E key \in Keys : ModalKeyDown(key)
    \/ ModalUnmount
    \/ \E r \in DOMAIN requests :
         \E res \in FetchResults(ModalBodies, {Unparsable}) : ModalFetchSettle(r, res)
    \/ \E r \in DOMAIN requests : ModalBodySettle(r)
    \/ \E r \in DOMAIN requests : ModalAbortSettle(r)

Spec == Init /\ [][Next]_vars

\* the continuation of request r after the await it is at
SettleStep(r) ==
    /\ r \in DOMAIN requests
    /\ \/ \E res \in FetchResults(DetailBodies(r), ErrorBodies) : DetailFetchSettle(r, res)
       \/ DetailBodySettle(r)
       \/ \E res \in FetchResults(CompareBodies(r), ErrorBodies) : CompareFetchSettle(r, res)
       \/ CompareBodySettle(r)
       \/ \E res \in FetchResults(ModalBodies, {Unparsable}) : ModalFetchSettle(r, res)
       \/ ModalBodySettle(r)
       \/ ModalAbortSettle(r)

\* React runs the effects of a mounted component, and every promise a
\* request awaits settles
Fairness ==
    /\ WF_vars(DetailMount)
    /\ \A r \in 1 .. MaxRequests : WF_vars(SettleStep(r))

\* what plays no part in a loading flag is kept small: the code branches on
\* res.ok, on exceptions and on the emptiness of the trimmed URLs, never on
\* the length of a history or of a URL, and no loading code reads the body
\* style
LiveInputs ==
    /\ dom.initialOverflow = "visible"
    /\ \A r \in DOMAIN requests :
          "history" \in DOMAIN requests[r].body.value
              => Len(requests[r].body.value.history) <= 1
    /\ Len(compare.myUrl) <= 1 /\ Len(compare.trendUrl) <= 1

LiveInit == Init /\ LiveInputs
LiveNext ==
    \/ DetailMount /\ LiveInputs'
    \/ \E id \in VideoIds : DetailSetVideoId(id) /\ LiveInputs'
    \/ \E text \in UrlTexts : SetMyUrl(text) /\ LiveInputs'
    \/ \E text \in UrlTexts : SetTrendUrl(text) /\ LiveInputs'
    \/ handleAnalyze /\ LiveInputs'
    \/ ModalMount /\ LiveInputs'
    \/ \E v \in VideoIds \cup {Null} : ModalSetVideo(v) /\ LiveInputs'
    \/ \E f \in OnCloseFns : ModalSetOnClose(f) /\ LiveInputs'
    \/ \E key \in Keys : ModalKeyDown(key) /\ LiveInputs'
    \/ ModalUnmount /\ LiveInputs'
    \/ \E r \in DOMAIN requests : SettleStep(r) /\ LiveInputs'

LiveSpec == LiveInit /\ [][LiveNext]_vars /\ Fairness

\* the pure functions of the three widgets, with no widget constructed
CalcInit ==
    /\ route = "none"
    /\ apiBaseUrl = Undefined
    /\ detail = [videoId |-> Undefined, video |-> NullData, loading |-> TRUE,
                 error |-> Null, effects |-> FALSE]
    /\ compare = [myUrl |-> <<>>, trendUrl |-> <<>>, analysis |-> NullData,
                  loading |-> FALSE, error |-> Null, calls |-> "none"]
    /\ modal = [video |-> Null, viewHistory |-> <<>>, isLoadingHistory |-> FALSE,
                phase |-> "constructed", controller |-> 0, source |-> 0,
                onClose |-> "f", originalStyle |-> Null,
                committed |-> [video |-> Null, source |-> 0]]
    /\ requests = <<>>
    /\ lastOutcome = Pending
    /\ thrown = [req |-> 0, err |-> NoThrow]
    /\ errorLog = {}
    /\ uncaught = FALSE
    /\ dom = [listeners |-> <<>>, overflow |-> "", sheet |-> "visible",
              initialOverflow |-> "visible", lastEsc |-> "none"]
    /\ calc = NoCall

CalcNext ==
    \/ Return
    \/ RenderDetailChart
    \/ RenderModalChart
    \/ RenderLabels
    \/ CallGetWinner
    \/ RenderRow
    \/ CallFormatDuration
    \/ CallDetailFormatNumber
    \/ CallModalFormatNumber
    \/ CallFormatCompactNumber
    \/ CallFormatChange

CalcSpec == CalcInit /\ [][CalcNext]_vars

(* ------------------------------- claims -------------------------------- *)

AllSettled == \A r \in DOMAIN requests : ~InFlight(r)

\* the detail state a request's outcome alone would leave
DetailReflects(o) ==
    /\ ~detail.loading
    /\ o.kind = "success" => detail.video = o.data /\ detail.error = Null
    /\ o.kind = "error" => detail.video = NullData /\ detail.error = o.message

\* C1: in the detail widget, when the fetch for videoId X was superseded by a
\* fetch for videoId Y and both have settled, (video, error, loading) is what
\* the outcome of Y's request alone gives, in whatever order the two settled.
C1_SupersededFetchLeavesNoTrace ==
    (route = "detail" /\ Len(requests) >= 2 /\ AllSettled)
        => DetailReflects(lastOutcome)

\* C2: in the modal, the request of a superseded video (or of an unmounted
\* modal) is aborted: the only response whose history is ever written into
\* viewHistory is that of the current effect's request, never an aborted one,
\* and once the current request has settled viewHistory is its outcome alone.
C2_HistoryWrite ==
    (modal'.source # modal.source /\ modal'.source # 0)
        => /\ modal'.source = modal.controller
           /\ ~requests[modal'.source].aborted
           /\ modal.phase = "mounted"
C2_Settled ==
    (route = "modal" /\ modal.phase = "mounted" /\ modal.controller # 0
        /\ AllSettled)
        => /\ ~modal.isLoadingHistory
           /\ lastOutcome.kind = "success"
                => modal.viewHistory = lastOutcome.data
                   /\ modal.source = modal.controller
           /\ lastOutcome.kind = "error"
                => modal.viewHistory = <<>> /\ modal.source = 0
C2_Superseded ==
    \A r \in DOMAIN requests :
        (requests[r].widget = "modal" /\ InFlight(r) /\ r # modal.controller)
            => requests[r].aborted
C2_AbortedHistoryNeverApplied ==
    [][C2_HistoryWrite]_vars /\ []C2_Settled /\ []C2_Superseded

\* a superseded request was aborted and the newer one delivered a history
C2_Witness ==
    /\ route = "modal" /\ modal.phase = "mounted"
    /\ Len(requests) >= 2 /\ AllSettled
    /\ requests[1].aborted
    /\ modal.source = modal.controller /\ modal.source = Len(requests)
    /\ Len(modal.viewHistory) > 0

\* C3: in the detail widget loading, error and success exclude each other in
\* every reachable state: loading implies video = null and error = null, and
\* video and error are never both non-null.
C3_DetailStatesExclusive ==
    route = "detail"
        => /\ detail.loading => detail.video = NullData /\ detail.error = Null
           /\ ~(detail.video # NullData /\ detail.error # Null)

\* C4: in the comparison widget at most one of loading, error # null and
\* analysis # null holds in every reachable state, and a step that starts an
\* analysis leaves error and analysis null.
C4_Exclusive ==
    Cardinality({k \in {"loading", "error", "analysis"} :
        \/ k = "loading" /\ compare.loading
        \/ k = "error" /\ compare.error # Null
        \/ k = "analysis" /\ compare.analysis # NullData}) <= 1
C4_Start ==
    Len(requests') > Len(requests)
        => compare'.loading /\ compare'.error = Null /\ compare'.analysis = NullData
C4_CompareStatesExclusive ==
    [](route = "compare" => C4_Exclusive) /\ [][route = "compare" => C4_Start]_vars

\* a second analysis succeeded after a first one had failed
C4_Witness ==
    /\ route = "compare" /\ Len(requests) >= 2 /\ AllSettled
    /\ compare.analysis # NullData /\ compare.error = Null /\ ~compare.loading

\* C5: the comparison widget issues a request only in a step of the analyze
\* action taken with both inputs non-blank after trimming and loading = false;
\* an analyze call that is blocked changes nothing and issues nothing; at most
\* one compare request is in flight.
C5_OneInFlight ==
    Cardinality({r \in DOMAIN requests : InFlight(r)}) <= 1
C5_Issue ==
    Len(requests') > Len(requests)
        => /\ Len(Trim(compare.myUrl)) > 0 /\ Len(Trim(compare.trendUrl)) > 0
           /\ ~compare.loading
           /\ compare'.calls = "started"
           /\ compare'.myUrl = compare.myUrl /\ compare'.trendUrl = compare.trendUrl
C5_Blocked ==
    (compare'.calls = "returned" /\ compare.calls # "returned")
        => /\ compare' = [compare EXCEPT !.calls = "returned"]
           /\ requests' = requests
           /\ compare.loading \/ Len(Trim(compare.myUrl)) = 0
                              \/ Len(Trim(compare.trendUrl)) = 0
C5_AnalyzeGuarded ==
    /\ [](route = "compare" => C5_OneInFlight)
    /\ [][route = "compare" => C5_Issue /\ C5_Blocked]_vars

\* analyze was called again while a request was in flight, and returned
C5_Witness ==
    /\ route = "compare" /\ compare.loading /\ compare.calls = "returned"
    /\ canAnalyze
    /\ \E r \in DOMAIN requests : InFlight(r)

\* the step in which request r fails because its controller was aborted
AbortFailure(r) ==
    /\ requests[r].aborted /\ InFlight(r)
    /\ requests'[r].phase = "done"
    /\ requests[r].phase = "fetch" \/ ResponseOk(requests[r].status)

\* C6: in the modal a failure caused by abort logs no error and leaves
\* viewHistory and isLoadingHistory as they were, also when a newer request
\* is already in flight.
C6_AbortLeavesStateUntouched ==
    [][\A r \in DOMAIN requests :
         AbortFailure(r)
            => /\ errorLog' = errorLog
               /\ modal'.viewHistory = modal.viewHistory
               /\ modal'.isLoadingHistory = modal.isLoadingHistory]_vars

\* C7: without an API base URL no widget calls fetch, and every trigger ends
\* in a settled, non-loading state.
C7_NoFetchWithoutBaseUrl ==
    (apiBaseUrl = Undefined \/ apiBaseUrl = "")
        => /\ requests = <<>>
           /\ detail.effects => ~detail.loading
           /\ ~compare.loading
           /\ ~modal.isLoadingHistory

\* analyze was triggered with an empty-string base URL
C7_Witness ==
    /\ route = "compare" /\ apiBaseUrl = ""
    /\ compare.calls = "started"

\* C8: in every widget a missing API base URL ends in a user-visible error
\* state that carries the configuration message.
C8_MissingBaseUrlShowsError ==
    (apiBaseUrl = Undefined \/ apiBaseUrl = "")
        => /\ (route = "detail" /\ detail.effects)
                => DetailRender = [view |-> "message", message |-> ConfigErrorMessage]
           /\ (route = "compare" /\ compare.calls = "started")
                => CompareErrorBanner = ConfigErrorMessage
           /\ (route = "modal" /\ modal.phase = "mounted" /\ modal.video # Null)
                => ModalRender = [view |-> "error", message |-> ConfigErrorMessage]

\* the message the claim expects for a non-2xx response
ExpectedFailureMessage(req) ==
    IF /\ req.body.parsable
       /\ req.body.value.type = "object"
       /\ req.body.value.detail.type = "string"
    THEN req.body.value.detail.value
    ELSE GenericStatusMessage(req.status)

\* the step in which the non-2xx response of request r is handled
FailureHandled(r) ==
    /\ requests[r].phase = "body" /\ ~ResponseOk(requests[r].status)
    /\ requests'[r].phase = "done"

\* C9: in the detail and comparison widgets a non-2xx response sets the error
\* to the string `detail` of its JSON body, else to the generic message with
\* the status code; the result data stays null and loading becomes false.
C9_FailureDetailShown ==
    [][\A r \in DOMAIN requests :
         /\ (route = "detail" /\ FailureHandled(r))
              => /\ detail'.error = ExpectedFailureMessage(requests[r])
                 /\ detail'.video = NullData
                 /\ ~detail'.loading
         /\ (route = "compare" /\ FailureHandled(r))
              => /\ compare'.error = ExpectedFailureMessage(requests[r])
                 /\ compare'.analysis = NullData
                 /\ ~compare'.loading]_vars

\* the step in which a fetch routine catches a thrown value
Throws == thrown' # thrown /\ thrown'.err # NoThrow

\* C10: in the detail and comparison widgets every value thrown on the fetch
\* path is caught: error becomes its message (the generic fallback when it is
\* not an Error), loading becomes false, nothing propagates.
C10_Caught(w) ==
    /\ w.error = IF thrown'.err.isError THEN thrown'.err.message
                 ELSE UnknownErrorMessage
    /\ ~w.loading
    /\ ~uncaught'
C10_FetchErrorsBecomeState ==
    [][/\ (route = "detail" /\ Throws) => C10_Caught(detail')
       /\ (route = "compare" /\ Throws) => C10_Caught(compare')]_vars

\* a value that is not an Error was thrown and the fallback is shown
C10_Witness ==
    /\ route \in {"detail", "compare"}
    /\ thrown.err = NonErrorValue
    /\ (IF route = "detail" THEN detail.error ELSE compare.error) = UnknownErrorMessage


(* C11: once the modal has unmounted, whatever videos and onClose callbacks *)
(* it was given while mounted, window has no keydown listener left and the  *)
(* computed overflow of document.body is the one it had before the modal    *)
(* first locked scrolling; while the modal is mounted window has at most    *)
(* one keydown listener.                                                    *)
C11_EffectsCleanedUp ==
    /\ modal.phase = "unmounted" =>
           /\ dom.listeners = <<>>
           /\ ComputedOverflow(dom) = dom.initialOverflow
    /\ modal.phase = "mounted" => Len(dom.listeners) <= 1

\* an unmounted modal that had locked scrolling and had been given another
\* onClose
C11_Witness ==
    /\ modal.phase = "unmounted"
    /\ modal.onClose = "g"
    /\ modal.source > 0
    /\ dom.overflow = dom.initialOverflow

Count(seq, x) == Cardinality({i \in DOMAIN seq : seq[i] = x})
IsPermutation(a, b) ==
    /\ Len(a) = Len(b)
    /\ \A i \in DOMAIN b : Count(a, b[i]) = Count(b, b[i])
AscendingByDate(h) ==
    \A i, j \in DOMAIN h :
        i < j => GetTime(h[i].snapshot_date) <= GetTime(h[j].snapshot_date)

(* C12: when the modal applies a successful response, viewHistory becomes a *)
(* permutation of the history items of that response in ascending order of  *)
(* snapshot_date, and the empty list when the response has no history field.*)
C12_Applied ==
    (modal'.source # modal.source /\ modal'.source # 0)
        => LET data == requests[modal'.source].body.value
           IN  /\ IsPermutation(modal'.viewHistory, HistoryOf(data))
               /\ AscendingByDate(modal'.viewHistory)
               /\ "history" \notin DOMAIN data => modal'.viewHistory = <<>>
C12_HistorySorted == [][C12_Applied]_vars

\* a response with two snapshots of different days has been applied
C12_Witness ==
    /\ modal.source > 0
    /\ Len(modal.viewHistory) = 2
    /\ modal.viewHistory[1].snapshot_date < modal.viewHistory[2].snapshot_date

(* C13: the modal chart given an empty series renders the "no data" text,   *)
(* and while loading it renders the spinner; in neither case does it        *)
(* compute an axis bound, a bar height or the first/last delta.             *)
C13_PlaceholderComputesNothing ==
    calc.fn = "ModalSimpleChart" =>
        LET data == calc.args[1]
            isLoading == calc.args[2]
        IN  /\ isLoading => calc.result.view = "spinner"
            /\ (~isLoading /\ data = <<>>) => calc.result.view = "no data"
            /\ (isLoading \/ data = <<>>) => calc.result.computed = {}

\* the chart was rendered with an empty series and not loading
C13_Witness ==
    /\ calc.fn = "ModalSimpleChart"
    /\ calc.args = <<(<<>>), FALSE>>
    /\ calc.result.view = "no data"

(* C14: when the detail page is given an empty viewHistory or likeHistory,  *)
(* the chart renders an explicit empty placeholder and evaluates nothing on *)
(* the empty series.                                                        *)
C14_DetailEmptySeriesDegrades ==
    (calc.fn = "DetailSimpleChart" /\ calc.args[1] = <<>>)
        => /\ calc.result.view = "no data"
           /\ calc.result.computed = {}

\* the axis bounds the modal chart computed, compared with exact quotients
ChartDrawn == calc.fn = "ModalSimpleChart" /\ calc.result.view = "chart"
AxisMaxIs(m) == 20 * calc.result.maxCount.num = 21 * m * calc.result.maxCount.den
AxisMinIs(m) == calc.result.minCount = m

C20_BarHeights ==
    ChartDrawn =>
        LET data == calc.args[1]
            axisMax == calc.result.maxCount
            axisMin == calc.result.minCount
        IN  \A i \in DOMAIN data :
               LET h == calc.result.heights[i]
               IN  /\ h.den > 0
                   /\ axisMax.num - axisMax.den * axisMin > 0
                   /\ h.num * (axisMax.num - axisMax.den * axisMin)
                         = 100 * axisMax.den * (data[i] - axisMin) * h.den
                   /\ 0 <= h.num
                   /\ h.num < 100 * h.den

\* a chart whose bars differ, with a negative count below the axis origin
C20_Witness ==
    /\ ChartDrawn
    /\ calc.args[1] = <<-5, 20>>
    /\ calc.result.heights[1].num = 0
    /\ calc.result.heights[2].num > 0

(* C16: getWinner is antisymmetric and ties exactly on equality: it returns *)
(* 'A' iff a > b, 'B' iff b > a, 'tie' iff a = b, and getWinner(a, b) = 'A' *)
(* iff getWinner(b, a) = 'B'.                                               *)
C16_GetWinnerAntisymmetric ==
    calc.fn = "getWinner" =>
        LET a == calc.args[1]
            b == calc.args[2]
        IN  /\ calc.result = "A" <=> a > b
            /\ calc.result = "B" <=> b > a
            /\ calc.result = "tie" <=> a = b
            /\ calc.result = "A" <=> getWinner(b, a) = "B"
            /\ calc.result = "B" <=> getWinner(b, a) = "A"

\* the example getWinner(4, 4) = 'tie'
C16_Witness ==
    /\ calc.fn = "getWinner"
    /\ calc.args = <<4, 4>>
    /\ calc.result = "tie"

(* C17: the row of each of the ten paired metrics marks the 'mine' side iff *)
(* mine > trend, the 'trend' side iff trend > mine, and neither side when   *)
(* they are equal; no row marks both sides, and the rows of textual         *)
(* attributes mark no side.                                                 *)
C17_RowMarksWinner ==
    calc.fn = "Row" =>
        LET field == calc.args[1]
            mine == calc.args[2]
            trend == calc.args[3]
        IN  /\ field \in PairedMetrics =>
                  /\ calc.result.crownA <=> mine > trend
                  /\ calc.result.crownB <=> trend > mine
                  /\ mine = trend => ~calc.result.crownA /\ ~calc.result.crownB
            /\ ~(calc.result.crownA /\ calc.result.crownB)
            /\ field \in TextAttributes =>
                  ~calc.result.crownA /\ ~calc.result.crownB

\* a row of equal share rates, marking neither side
C17_Witness ==
    /\ calc.fn = "Row"
    /\ calc.args = <<"share_rate", 4, 4>>
    /\ ~calc.result.crownA /\ ~calc.result.crownB

\* floor(s / 60) ":" (s mod 60 in two digits), from the claim
TwoDigits(n) == ToString(n \div 10) \o ToString(n % 10)
MinutesSeconds(s) == ToString(s \div 60) \o ":" \o TwoDigits(s % 60)

(* C19: for every integer s >= 0, formatDuration(s) is floor(s / 60), a     *)
(* colon and s mod 60 zero-padded to two digits; zero or undefined input    *)
(* gives "0:00".                                                            *)
C19_DurationFormat ==
    calc.fn = "formatDuration" =>
        LET s == calc.args[1]
        IN  /\ s.type = "number" => calc.result = MinutesSeconds(s.value)
            /\ s.type = "undefined" => calc.result = "0:00"
            /\ s = JNumber(0) => calc.result = "0:00"

\* the examples 65 -> "1:05" and 599 -> "9:59"
C19_Witness ==
    /\ calc.fn = "formatDuration"
    /\ \/ calc.args = <<JNumber(65)>> /\ calc.result = "1:05"
       \/ calc.args = <<JNumber(599)>> /\ calc.result = "9:59"

\* what the claim gives for n: one decimal of millions or thousands, or the
\* grouped integer
CompactOf(n) ==
    IF n >= 1000000 THEN ToFixed1(n, 1000000) \o "M"
    ELSE IF n >= 1000 THEN ToFixed1(n, 1000) \o "K"
    ELSE ToLocaleString(n)

(* C18: for every integer n each compact formatter (formatNumber of the     *)
(* detail page and of the modal, formatCompactNumber of the comparison      *)
(* widget) returns n / 1,000,000 to one decimal with M when n >= 1,000,000, *)
(* n / 1,000 to one decimal with K when 1,000 <= n < 1,000,000, and the     *)
(* plain grouped integer when n < 1000.                                     *)
C18_CompactFormat ==
    calc.fn \in {"DetailFormatNumber", "ModalFormatNumber", "formatCompactNumber"}
        => calc.result = CompactOf(calc.args[1])

\* the least k with 10 k >= n
LeastTenth(n) == CHOOSE k \in 1 .. n : 10 * k >= n /\ 10 * (k - 1) < n

(* C21: in the modal chart, for a series of n items, every label is visible *)
(* when n <= 10; when n > 10 the label at index i is visible iff i is a     *)
(* multiple of ceil(n / 10) or i = n - 1; the first and the last label are  *)
(* visible for every n >= 1; one label slot is laid out per item, visible   *)
(* or hidden.                                                               *)
C21_LabelVisibility ==
    calc.fn = "Labels" =>
        LET n == calc.args[1]
            visible == calc.result
        IN  /\ DOMAIN visible = 0 .. n - 1
            /\ n <= 10 => \A i \in 0 .. n - 1 : visible[i]
            /\ n > 10 => \A i \in 0 .. n - 1 :
                  visible[i] <=> (i % LeastTenth(n) = 0 \/ i = n - 1)
            /\ visible[0] /\ visible[n - 1]

\* twelve items: every second label, and the last one, at an odd index
C21_Witness ==
    /\ calc.fn = "Labels"
    /\ calc.args = <<12>>
    /\ calc.result[10] /\ calc.result[11] /\ ~calc.result[9]

\* the compact form of k >= 0, with the K and M thresholds
CompactAbs(k) ==
    IF k >= 1000000 THEN ToFixed1(k, 1000000) \o "M"
    ELSE IF k >= 1000 THEN ToFixed1(k, 1000) \o "K"
    ELSE ToString(k)

(* C22: for every integer n, formatChange(n) is a signed compact number: a  *)
(* '+' followed by the compact form of n when n >= 0, and a '-' followed by *)
(* the compact form of |n| (same K and M thresholds) when n < 0; never a    *)
(* '+' before a negative delta.                                             *)
C22_SignedCompact ==
    calc.fn = "formatChange" =>
        LET n == calc.args[1]
        IN  /\ n >= 0 => calc.result = "+" \o CompactAbs(n)
            /\ n < 0 => calc.result = "-" \o CompactAbs(-n)

(* C23: in every committed render of the modal that shows chart bars        *)
(* (isLoadingHistory false, viewHistory non-empty) viewHistory is the       *)
(* response obtained for the video displayed; after the video changes from  *)
(* X to Y, or the modal is closed and reopened on Y, bars built from the    *)
(* history of X are never shown under Y.                                    *)
C23_BarsBelongToVideo ==
    /\ ModalRender.view = "bars" =>
          /\ modal.source # 0
          /\ requests[modal.source].id = modal.video
    /\ modal.committed.source # 0 =>
          requests[modal.committed.source].id = modal.committed.video

\* the widget on screen shows its loading state
Loading ==
    \/ route = "detail" /\ detail.loading
    \/ route = "compare" /\ compare.loading
    \/ route = "modal" /\ ModalRender.view = "spinner"

\* a trigger that issues a request
Triggered == Len(requests') > Len(requests)

(* C24: in every widget, provided each issued request eventually settles,   *)
(* the loading flag eventually becomes false after the last trigger and     *)
(* stays false until the next trigger: no sequence of triggers and          *)
(* responses leaves a widget showing its loading state forever.             *)
C24_LoadingEnds ==
    /\ <>[](~Loading)
    /\ [][(~Loading /\ Loading') => Triggered]_vars

\* a widget that showed its loading state and no longer does, every request
\* settled
C24_Witness ==
    /\ Len(requests) = MaxRequests
    /\ AllSettled
    /\ ~Loading

(* C25: the modal invokes onClose on an Escape key press only while it is   *)
(* open (video non-null); while it is mounted with video = null it renders  *)
(* nothing, holds no scroll lock, issues no request and does not react to   *)
(* key presses.                                                             *)
C25_EscapeOnlyWhileOpen ==
    /\ dom.lastEsc # "closed"
    /\ (route = "modal" /\ modal.phase = "mounted" /\ modal.video = Null) =>
          /\ ModalRender.view = "none"
          /\ modal.originalStyle = Null
          /\ dom.overflow # "hidden"
          /\ modal.controller = 0

\* request r of the modal, not aborted, ends in this step with a failure:
\* an exception, or a status that is not 2xx
FailsNow(r) ==
    /\ requests[r].widget = "modal"
    /\ requests[r].phase # "done" /\ requests'[r].phase = "done"
    /\ ~requests[r].aborted
    /\ \/ thrown'.req = r /\ thrown'.err # NoThrow
       \/ <<r, "failed">> \in errorLog' \ errorLog

C26_Failure ==
    \A r \in DOMAIN requests :
        FailsNow(r) =>
            /\ modal'.viewHistory = <<>>
            /\ ~modal'.isLoadingHistory
            /\ ModalRender'.view = "no data"

(* C26: in the modal every failure of the history request other than an     *)
(* abort (status not 2xx, network error, unparsable or malformed 2xx body)  *)
(* ends with viewHistory = [] and isLoadingHistory = false: both charts     *)
(* show the no-data placeholder and no history of an earlier video remains. *)
C26_FailureClearsHistory == [][C26_Failure]_vars

\* the request for a second video failed after the first had shown bars
C26_Witness ==
    /\ route = "modal" /\ modal.phase = "mounted"
    /\ Len(requests) = 2 /\ AllSettled
    /\ ~requests[2].aborted /\ modal.controller = 2
    /\ lastOutcome.kind = "error"
    /\ modal.committed.source = 1
    /\ ModalRender.view = "no data"

(* C27: in both chart variants, for every non-empty series the first-vs-    *)
(* last delta is shown with exactly one sign: a '+' when last >= first and  *)
(* a '-', with no '+', when last < first.                                   *)
C27_DeltaHasOneSign ==
    (calc.fn \in {"ModalSimpleChart", "DetailSimpleChart"}
        /\ calc.result.view = "chart")
        => LET data == calc.args[1]
               first == data[1]
               last == data[Len(data)]
           IN  /\ last >= first =>
                     calc.result.deltaText = "+" \o CompactAbs(last - first)
               /\ last < first =>
                     calc.result.deltaText = "-" \o CompactAbs(first - last)

(* C28: in the detail-page chart, for every non-empty series of             *)
(* non-negative integer counts no division has a zero divisor: the          *)
(* percentage change is computed only with a non-zero first count and the   *)
(* bar heights only with a non-zero maximum count.                          *)
C28_NoZeroDivisor ==
    (calc.fn = "DetailSimpleChart" /\ calc.result.view = "chart"
        /\ \A i \in DOMAIN calc.args[1] : calc.args[1][i] >= 0)
        => /\ calc.result.percent.den # 0
           /\ \A i \in DOMAIN calc.args[1] : calc.result.heights[i].den # 0

====
